---- MODULE Spec2Model ----
(***************************************************************************)
(* The position-booking ledger of rqalpha/model/booking.py: BookingModel   *)
(* (the ledger), BookingPositions (a create-on-access bucket per           *)
(* direction) and BookingPosition (the per-(instrument, direction)         *)
(* record).                                                                *)
(*                                                                         *)
(* Numbers.  Quantities, prices, dates and split ratios are integers.      *)
(* avg_price is the result of Python's true division, modelled exactly as  *)
(* a normalised fraction <<numerator, denominator>>; the rounding of       *)
(* binary floating point is not modelled.                                  *)
(***************************************************************************)
EXTENDS Integers, FiniteSets, Sequences, TLC

\* ------------------------------------------------------------------ bounds
\* Trading dates are 1..MaxDate; a client holding a restored Position makes
\* at most MaxCalls state-changing calls on it directly.
MaxDate == 2
MaxCalls == 1

\* ------------------------------------------------------------ input domains
None == "None"

Directions == {"LONG", "SHORT"}

\* The instruments the trade stream refers to: a future and a stock.  The
\* restored ledgers below also hold a further stock, "DL".
Instruments == {"IF", "ST"}

\* SIDE.BUY, SIDE.SELL and a value that is neither.
Sides == {"BUY", "SELL", "OTHER"}

\* POSITION_EFFECT.OPEN/CLOSE/CLOSE_TODAY, an absent effect, and a value
\* that is none of these.
Effects == {"OPEN", "CLOSE", "CLOSE_TODAY", None, "MATCH"}

\* <<executed quantity, executed price>> of the trades of the stream, and
\* of the trades a client applies to a Position directly.
Lots == {<<0, 100>>, <<10, 100>>, <<10, 200>>}

PositionLots == {<<0, 100>>, <<6, 100>>, <<10, 200>>, <<15, 200>>}

ExecIds == {1, 2}

\* A trade record: the fields of a trade that the ledger reads.
Trade(exec_id, order_book_id, side, position_effect, lot) ==
    [exec_id |-> exec_id, order_book_id |-> order_book_id, side |-> side,
     position_effect |-> position_effect,
     last_price |-> lot[2], last_quantity |-> lot[1]]

\* The trade-executed events delivered to the ledger.
Trades ==
    { Trade(exec_id, order_book_id, side, position_effect, lot) :
        exec_id \in ExecIds, order_book_id \in Instruments, side \in Sides,
        position_effect \in Effects, lot \in Lots }

\* The trades applied to the Position of order_book_id directly.
PositionTrades(order_book_id) ==
    { Trade(exec_id, order_book_id, side, position_effect, lot) :
        exec_id \in ExecIds, side \in Sides,
        position_effect \in Effects, lot \in PositionLots }

VARIABLES
    positions_dict,       \* BookingModel._positions_dict: direction -> bucket
    backward_trade_set,   \* BookingModel._backward_trade_set
    trading_dt,           \* the date of the current trading session
    calls                 \* direct calls that changed a restored Position

vars == <<positions_dict, backward_trade_set, trading_dt, calls>>

\* ------------------------------------------------------- exact fractions
Abs(n) == IF n < 0 THEN -n ELSE n

RECURSIVE GCD(_, _)
GCD(a, b) == IF b = 0 THEN a ELSE GCD(b, a % b)

\* The fraction n/d (d # 0) in lowest terms with a positive denominator.
Frac(n, d) ==
    LET g == GCD(Abs(n), Abs(d))
        s == IF d < 0 THEN -1 ELSE 1
    IN  <<(s * n) \div g, (s * d) \div g>>

FracOfInt(n) == <<n, 1>>

\* x / k for a fraction x and an integer k # 0.
FracDivInt(x, k) == Frac(x[1], x[2] * k)

\* --------------------------------------------------------- the data proxy
\* The reference data the ledger reads.  An optional value of the provider
\* is << >> for Python's None and <<v>> for the value v.  "IF" is a future
\* that is delisted on date 2; "ST" is a stock that is never delisted (it
\* carries the sentinel date) and splits 2:1 with ex-date 2; "DL" is a
\* stock whose delisting date is 3.  Any other instrument has no delisting
\* date.
NoValue == << >>

\* Instrument.DEFAULT_DE_LISTED_DATE, a date no session reaches.
DEFAULT_DE_LISTED_DATE == 2999

\* data_proxy.instruments(order_book_id).type
InstrumentType(order_book_id) ==
    IF order_book_id = "IF" THEN "Future" ELSE "CS"

\* data_proxy.instruments(order_book_id).de_listed_date
DeListedDate(order_book_id) ==
    CASE order_book_id = "IF" -> <<2>>
      [] order_book_id = "ST" -> <<DEFAULT_DE_LISTED_DATE>>
      [] order_book_id = "DL" -> <<3>>
      [] OTHER -> NoValue

GetNextTradingDate(date) == date + 1

GetPreviousTradingDate(date) == date - 1

GetSplitByExDate(order_book_id, date) ==
    IF order_book_id = "ST" /\ date = 2 THEN <<2>> ELSE NoValue

GetSettlePrice(order_book_id, date) == 300 + date

\* data_proxy.history_bars(order_book_id, 1, "1d", "close", date)[0]
HistoryBarsClose(order_book_id, date) == 50 + date

\* ------------------------------------------------------- BookingPosition
NoTrades == [x \in {} |-> x]

\* BookingPosition.__init__
BookingPosition(order_book_id, direction, old_quantity, today_quantity, avg_price, prev_settlement_price) ==
    [order_book_id |-> order_book_id,
     direction |-> direction,
     old_quantity |-> old_quantity,
     logical_old_quantity |-> old_quantity,
     today_quantity |-> today_quantity,
     avg_price |-> avg_price,
     prev_settlement_price |-> prev_settlement_price,
     trades |-> NoTrades]

\* BookingPosition.quantity
Quantity(position) == position.old_quantity + position.today_quantity

\* current_snapshot(order_book_id).last: the prices the snapshot may show.
LastPrices == {40, 120}

\* instruments(order_book_id).contract_multiplier
ContractMultiplier(order_book_id) == IF order_book_id = "IF" THEN 300 ELSE 1

\* One summand of trading_pnl.
TradePnl(order_book_id, trade, last_price) ==
    LET price_spread == IF trade.side = "BUY"
                        THEN last_price - trade.last_price
                        ELSE trade.last_price - last_price
    IN  trade.last_quantity * ContractMultiplier(order_book_id) * price_spread

\* The loop of trading_pnl over the exec ids not yet visited.
RECURSIVE SumTradePnl(_, _, _)
SumTradePnl(position, exec_ids, last_price) ==
    IF exec_ids = {} THEN 0
    ELSE LET exec_id == CHOOSE x \in exec_ids : TRUE
         IN  TradePnl(position.order_book_id, position.trades[exec_id], last_price)
               + SumTradePnl(position, exec_ids \ {exec_id}, last_price)

\* BookingPosition.trading_pnl
TradingPnl(position, last_price) ==
    SumTradePnl(position, DOMAIN position.trades, last_price)

\* A position_pnl computed on the quantity held instead of the snapshot.
PositionPnlOnQuantity(position, last_price) ==
    IF Quantity(position) = 0 THEN 0
    ELSE LET price_spread == IF position.direction = "LONG"
                             THEN last_price - position.prev_settlement_price
                             ELSE position.prev_settlement_price - last_price
         IN  Quantity(position) * ContractMultiplier(position.order_book_id)
               * price_spread

\* BookingPosition.position_pnl
PositionPnl(position, last_price) ==
    IF position.logical_old_quantity = 0 THEN 0
    ELSE LET price_spread == IF position.direction = "LONG"
                             THEN last_price - position.prev_settlement_price
                             ELSE position.prev_settlement_price - last_price
         IN  position.logical_old_quantity
               * ContractMultiplier(position.order_book_id) * price_spread

\* BookingPosition._get_position_effect
GetPositionEffect(side, position_effect) ==
    IF position_effect = None
    THEN CASE side = "BUY" -> "OPEN"
           [] side = "SELL" -> "CLOSE"
           [] OTHER -> position_effect
    ELSE position_effect

\* A Position without its own check of the trades map.
TradeRecordedNoCheck(position, trade) == FALSE

\* `if trade.exec_id in self._trades`
TradeRecorded(position, trade) == trade.exec_id \in DOMAIN position.trades

\* Whether the OPEN branch's division raises ZeroDivisionError.
OpenDividesByZero(position, trade) ==
    /\ ~(Quantity(position) < 0)
    /\ Quantity(position) + trade.last_quantity = 0

\* An OPEN branch that averages the two prices without weighting them.
OpenAvgPriceUnweighted(position, trade) ==
    IF Quantity(position) < 0
    THEN IF trade.last_quantity <= -1 * Quantity(position)
         THEN FracOfInt(0)
         ELSE FracOfInt(trade.last_price)
    ELSE Frac(position.avg_price[1] + trade.last_price * position.avg_price[2],
              position.avg_price[2] * 2)

\* An OPEN branch that compares with < where the code compares with <=.
OpenAvgPriceStrict(position, trade) ==
    IF Quantity(position) < 0
    THEN IF trade.last_quantity < -1 * Quantity(position)
         THEN FracOfInt(0)
         ELSE FracOfInt(trade.last_price)
    ELSE Frac(Quantity(position) * position.avg_price[1]
                + trade.last_quantity * trade.last_price * position.avg_price[2],
              position.avg_price[2] * (Quantity(position) + trade.last_quantity))

\* The OPEN branch's new avg_price (where the division is defined).
OpenAvgPrice(position, trade) ==
    IF Quantity(position) < 0
    THEN IF trade.last_quantity <= -1 * Quantity(position)
         THEN FracOfInt(0)
         ELSE FracOfInt(trade.last_price)
    ELSE Frac(Quantity(position) * position.avg_price[1]
                + trade.last_quantity * trade.last_price * position.avg_price[2],
              position.avg_price[2] * (Quantity(position) + trade.last_quantity))

\* The OPEN branch.
ApplyOpen(position, trade) ==
    [position EXCEPT
        !.avg_price = OpenAvgPrice(position, trade),
        !.today_quantity = @ + trade.last_quantity]

\* A CLOSE_TODAY branch that takes from the old quantity what today's
\* quantity cannot cover.
ApplyCloseTodayFromOld(position, trade) ==
    LET today_quantity == position.today_quantity - trade.last_quantity
    IN  IF today_quantity < 0
        THEN [position EXCEPT
                !.old_quantity = @ + today_quantity,
                !.today_quantity = 0]
        ELSE [position EXCEPT !.today_quantity = today_quantity]

\* A CLOSE_TODAY branch that stops at 0.
ApplyCloseTodayClamped(position, trade) ==
    LET today_quantity == position.today_quantity - trade.last_quantity
    IN  [position EXCEPT
            !.today_quantity = IF today_quantity < 0 THEN 0 ELSE today_quantity]

\* The CLOSE_TODAY branch.
ApplyCloseToday(position, trade) ==
    [position EXCEPT !.today_quantity = @ - trade.last_quantity]

\* A CLOSE branch that keeps the settlement snapshot equal to the old
\* quantity it reduces.
ApplyCloseMovingSnapshot(position, trade) ==
    LET old_quantity == position.old_quantity - trade.last_quantity
    IN  IF old_quantity < 0
        THEN [position EXCEPT
                !.today_quantity = @ + old_quantity,
                !.old_quantity = 0,
                !.logical_old_quantity = 0]
        ELSE [position EXCEPT
                !.old_quantity = old_quantity,
                !.logical_old_quantity = old_quantity]

\* A CLOSE branch that resets the old quantity and drops the overflow.
ApplyCloseDropOverflow(position, trade) ==
    LET old_quantity == position.old_quantity - trade.last_quantity
    IN  IF old_quantity < 0
        THEN [position EXCEPT !.old_quantity = 0]
        ELSE [position EXCEPT !.old_quantity = old_quantity]

\* A CLOSE branch that moves the overflow to today's quantity and forgets to
\* reset the old quantity.
ApplyCloseNoReset(position, trade) ==
    LET old_quantity == position.old_quantity - trade.last_quantity
    IN  IF old_quantity < 0
        THEN [position EXCEPT
                !.today_quantity = @ + old_quantity,
                !.old_quantity = old_quantity]
        ELSE [position EXCEPT !.old_quantity = old_quantity]

\* The CLOSE branch: old quantity first, then today's.
ApplyClose(position, trade) ==
    LET old_quantity == position.old_quantity - trade.last_quantity
    IN  IF old_quantity < 0
        THEN [position EXCEPT
                !.today_quantity = @ + old_quantity,
                !.old_quantity = 0]
        ELSE [position EXCEPT !.old_quantity = old_quantity]

\* self._trades[trade.exec_id] = trade
RecordTrade(trades, trade) ==
    [x \in DOMAIN trades \cup {trade.exec_id} |->
        IF x = trade.exec_id THEN trade ELSE trades[x]]

\* Whether BookingPosition.apply_trade raises: RuntimeError on a resolved
\* effect that is none of OPEN, CLOSE_TODAY, CLOSE; ZeroDivisionError in the
\* OPEN branch.
PositionApplyTradeRaises(position, trade) ==
    /\ ~TradeRecorded(position, trade)
    /\ LET position_effect == GetPositionEffect(trade.side, trade.position_effect)
       IN  \/ position_effect \notin {"OPEN", "CLOSE_TODAY", "CLOSE"}
           \/ /\ position_effect = "OPEN"
              /\ OpenDividesByZero(position, trade)

\* BookingPosition.apply_trade: the Position after the call.  A call that
\* raises leaves the Position as it was: both raises happen before the
\* first assignment.
PositionApplyTrade(position, trade) ==
    IF TradeRecorded(position, trade) THEN position
    ELSE IF PositionApplyTradeRaises(position, trade) THEN position
    ELSE LET position_effect == GetPositionEffect(trade.side, trade.position_effect)
             updated ==
                 CASE position_effect = "OPEN" -> ApplyOpen(position, trade)
                   [] position_effect = "CLOSE_TODAY" -> ApplyCloseToday(position, trade)
                   [] position_effect = "CLOSE" -> ApplyClose(position, trade)
         IN  [updated EXCEPT !.trades = RecordTrade(@, trade)]

\* BookingPosition.is_de_listed
IsDeListed(position, trading_date) ==
    LET de_listed_date == DeListedDate(position.order_book_id)
    IN  IF de_listed_date = NoValue \/ de_listed_date = <<DEFAULT_DE_LISTED_DATE>>
        THEN FALSE
        ELSE IF InstrumentType(position.order_book_id) = "Future"
             THEN de_listed_date[1] <= trading_date
             ELSE GetPreviousTradingDate(de_listed_date[1]) <= trading_date

\* `if split_ratio:` -- None and 0 are falsy.
Truthy(split_ratio) == split_ratio # NoValue /\ split_ratio[1] # 0

\* A split adjustment that scales the quantity and leaves the cost alone.
ApplySplitQuantityOnly(position, split_ratio) ==
    IF Truthy(split_ratio)
    THEN [position EXCEPT !.old_quantity = @ * split_ratio[1]]
    ELSE position

\* The split adjustment of apply_settlement, applied to the rolled Position.
ApplySplit(position, split_ratio) ==
    IF Truthy(split_ratio)
    THEN [position EXCEPT
            !.old_quantity = @ * split_ratio[1],
            !.avg_price = FracDivInt(@, split_ratio[1])]
    ELSE position

\* The price apply_settlement stores as prev_settlement_price.
SettlementPrice(order_book_id, trading_date) ==
    IF InstrumentType(order_book_id) = "Future"
    THEN GetSettlePrice(order_book_id, trading_date)
    ELSE HistoryBarsClose(order_book_id, trading_date)

\* A settlement that takes the snapshot before rolling today's quantity in.
PositionApplySettlementEarlySnapshot(position, trading_date) ==
    LET next_trading_date == GetNextTradingDate(trading_date)
        rolled ==
            [position EXCEPT
                !.old_quantity = position.old_quantity + position.today_quantity,
                !.logical_old_quantity = position.old_quantity,
                !.today_quantity = 0]
        split == ApplySplit(rolled,
                     GetSplitByExDate(position.order_book_id, next_trading_date))
    IN  [split EXCEPT
            !.trades = NoTrades,
            !.prev_settlement_price =
                SettlementPrice(position.order_book_id, trading_date)]

\* BookingPosition.apply_settlement
PositionApplySettlement(position, trading_date) ==
    LET next_trading_date == GetNextTradingDate(trading_date)
        rolled ==
            [position EXCEPT
                !.old_quantity = position.old_quantity + position.today_quantity,
                !.logical_old_quantity =
                    position.old_quantity + position.today_quantity,
                !.today_quantity = 0]
        split == ApplySplit(rolled,
                     GetSplitByExDate(position.order_book_id, next_trading_date))
    IN  [split EXCEPT
            !.trades = NoTrades,
            !.prev_settlement_price =
                SettlementPrice(position.order_book_id, trading_date)]

\* ------------------------------------------------------ BookingPositions
EmptyBucket == [x \in {} |-> x]

\* BookingPositions.__missing__ / get_or_create: the bucket after
\* `bucket[key]` has been evaluated.
GetOrCreate(bucket, key, direction) ==
    IF key \in DOMAIN bucket THEN bucket
    ELSE [x \in DOMAIN bucket \cup {key} |->
            IF x = key
            THEN BookingPosition(key, direction, 0, 0, FracOfInt(0), 0)
            ELSE bucket[x]]

\* ---------------------------------------------------------- BookingModel
\* A ledger without the global gate, relying on each Position's own check.
AlreadyAppliedNoGate(trade_set, trade) == FALSE

\* `if trade.exec_id in self._backward_trade_set: return`
AlreadyApplied(trade_set, trade) == trade.exec_id \in trade_set

\* The bucket a trade is routed to, or "RuntimeError" for a side that is
\* neither BUY nor SELL under an explicit OPEN/CLOSE/CLOSE_TODAY effect.
TargetDirection(trade) ==
    IF trade.position_effect = "OPEN"
    THEN CASE trade.side = "BUY" -> "LONG"
           [] trade.side = "SELL" -> "SHORT"
           [] OTHER -> "RuntimeError"
    ELSE IF trade.position_effect \in {"CLOSE", "CLOSE_TODAY"}
         THEN CASE trade.side = "BUY" -> "SHORT"
                [] trade.side = "SELL" -> "LONG"
                [] OTHER -> "RuntimeError"
         ELSE "LONG"

\* A ledger that never fills its dedupe set.
AddToTradeSetForgotten(trade_set, trade) == trade_set

\* The dedupe set after a trade went through Position.apply_trade.
AddToTradeSet(trade_set, trade) == trade_set \cup {trade.exec_id}

\* A ledger that puts the exec id in the dedupe set before it hands the
\* trade to the Position.
BookingModelApplyTradeAddFirst(positions, trade_set, trade) ==
    IF trade.exec_id \in trade_set
    THEN [positions_dict |-> positions, backward_trade_set |-> trade_set,
          raised |-> FALSE]
    ELSE IF TargetDirection(trade) = "RuntimeError"
    THEN [positions_dict |-> positions, backward_trade_set |-> trade_set,
          raised |-> TRUE]
    ELSE LET direction == TargetDirection(trade)
             order_book_id == trade.order_book_id
             bucket == GetOrCreate(positions[direction], order_book_id, direction)
             position == bucket[order_book_id]
         IN  [positions_dict |->
                  [positions EXCEPT ![direction] =
                      [bucket EXCEPT ![order_book_id] =
                          PositionApplyTrade(position, trade)]],
              backward_trade_set |-> AddToTradeSet(trade_set, trade),
              raised |-> PositionApplyTradeRaises(position, trade)]

\* BookingModel.apply_trade (Booking.apply_trade is the same code with
\* get_or_create in place of get_position): the ledger after the call, and
\* whether the call raised.
BookingModelApplyTrade(positions, trade_set, trade) ==
    IF AlreadyApplied(trade_set, trade)
    THEN [positions_dict |-> positions, backward_trade_set |-> trade_set,
          raised |-> FALSE]
    ELSE IF TargetDirection(trade) = "RuntimeError"
    THEN [positions_dict |-> positions, backward_trade_set |-> trade_set,
          raised |-> TRUE]
    ELSE LET direction == TargetDirection(trade)
             order_book_id == trade.order_book_id
             bucket == GetOrCreate(positions[direction], order_book_id, direction)
             position == bucket[order_book_id]
         IN  IF PositionApplyTradeRaises(position, trade)
             THEN [positions_dict |-> [positions EXCEPT ![direction] = bucket],
                   backward_trade_set |-> trade_set,
                   raised |-> TRUE]
             ELSE [positions_dict |->
                       [positions EXCEPT ![direction] =
                           [bucket EXCEPT ![order_book_id] =
                               PositionApplyTrade(position, trade)]],
                   backward_trade_set |-> AddToTradeSet(trade_set, trade),
                   raised |-> FALSE]

\* A scan that puts flat Positions only on the delete_list.
KeptUnlessFlat(bucket, trading_date) ==
    {order_book_id \in DOMAIN bucket : Quantity(bucket[order_book_id]) # 0}

\* A scan that puts on the delete_list every Position that carries nothing
\* over from earlier sessions.
KeptIfCarried(bucket, trading_date) ==
    {order_book_id \in DOMAIN bucket :
        ~(IsDeListed(bucket[order_book_id], trading_date)
            \/ bucket[order_book_id].old_quantity = 0)}

\* The keys of a bucket that BookingModel.apply_settlement does not put on
\* its delete_list.
Kept(bucket, trading_date) ==
    {order_book_id \in DOMAIN bucket :
        ~(IsDeListed(bucket[order_book_id], trading_date)
            \/ Quantity(bucket[order_book_id]) = 0)}

\* The scan loop of BookingModel.apply_settlement over one bucket: the
\* Position objects after the loop, before the delete_list is popped.
ScanBucket(bucket, trading_date) ==
    [order_book_id \in DOMAIN bucket |->
        IF order_book_id \in Kept(bucket, trading_date)
        THEN PositionApplySettlement(bucket[order_book_id], trading_date)
        ELSE bucket[order_book_id]]

\* A settlement that scans and never pops its delete_list.
BookingModelApplySettlementNoPop(positions, trading_date) ==
    [direction \in Directions |-> ScanBucket(positions[direction], trading_date)]

\* BookingModel.apply_settlement: the buckets after the scan and the pops.
BookingModelApplySettlement(positions, trading_date) ==
    [direction \in Directions |->
        [order_book_id \in Kept(positions[direction], trading_date) |->
            ScanBucket(positions[direction], trading_date)[order_book_id]]]

\* BookingModel.get_position: the buckets after the call.  The lookup
\* `self._positions_dict[direction][order_book_id]` goes through
\* BookingPositions.__missing__; the Position returned is the one the
\* bucket then holds under order_book_id.
BookingModelGetPosition(positions, order_book_id, direction) ==
    [positions EXCEPT ![direction] = GetOrCreate(@, order_book_id, direction)]

\* BookingModel.get_positions: the Positions returned (the order of the
\* list is the buckets' iteration order and is left out).
BookingModelGetPositions(positions) ==
    UNION { { positions[direction][order_book_id] :
                order_book_id \in
                    { x \in DOMAIN positions[direction] :
                        Quantity(positions[direction][x]) # 0 } } :
            direction \in Directions }

\* ---------------------------------------------- the ledger from empty
\* Every Position the ledger holds.
Positions ==
    UNION { { positions_dict[direction][order_book_id] :
                order_book_id \in DOMAIN positions_dict[direction] } :
            direction \in Directions }

\* BookingModel.__init__: empty buckets; the dedupe set is the one passed
\* in, or a new empty one.
Init ==
    /\ positions_dict = [direction \in Directions |-> EmptyBucket]
    /\ backward_trade_set \in {{}, {2}}
    /\ trading_dt = 1
    /\ calls = 0

\* A trade-executed event: Ledger.apply_trade(trade).  A call that raises
\* keeps what it did before raising.
ApplyTrade(trade) ==
    LET result == BookingModelApplyTrade(positions_dict, backward_trade_set, trade)
    IN  /\ positions_dict' = result.positions_dict
        /\ backward_trade_set' = result.backward_trade_set
        /\ UNCHANGED <<trading_dt, calls>>

\* A post-settlement event: Ledger.apply_settlement for the current
\* trading date; the next session then begins.
ApplySettlement ==
    /\ trading_dt <= MaxDate
    /\ positions_dict' = BookingModelApplySettlement(positions_dict, trading_dt)
    /\ trading_dt' = trading_dt + 1
    /\ UNCHANGED <<backward_trade_set, calls>>

\* A client reads one Position: Ledger.get_position(order_book_id, direction).
GetPosition(order_book_id, direction) ==
    /\ positions_dict' =
          BookingModelGetPosition(positions_dict, order_book_id, direction)
    /\ UNCHANGED <<backward_trade_set, trading_dt, calls>>

\* A client lists the Positions: Ledger.get_positions() only iterates.
GetPositions ==
    /\ BookingModelGetPositions(positions_dict) \subseteq Positions
    /\ UNCHANGED vars

Next ==
    \/ \E trade \in Trades : ApplyTrade(trade)
    \/ ApplySettlement
    \/ \E order_book_id \in Instruments :
          \E direction \in Directions : GetPosition(order_book_id, direction)
    \/ GetPositions

Spec == Init /\ [][Next]_vars

\* ------------------------------------------- a ledger restored from state
\* The Positions a restored ledger is constructed with: the arguments of
\* BookingPosition.__init__.
RestoredPositions ==
    { BookingPosition("IF", "LONG", 0, 0, FracOfInt(0), 0),
      BookingPosition("IF", "SHORT", -10, 0, FracOfInt(100), 90),
      BookingPosition("IF", "LONG", 0, 7, FracOfInt(50), 0),
      BookingPosition("ST", "LONG", 5, 3, FracOfInt(100), 90),
      BookingPosition("ST", "LONG", 10, 0, FracOfInt(100), 90),
      BookingPosition("DL", "LONG", 0, 7, FracOfInt(50), 0),
      BookingPosition("DL", "SHORT", 10, 0, FracOfInt(100), 90) }

\* BookingModel.__init__ with long_positions / short_positions holding one
\* restored Position.
RestoredInit ==
    /\ \E position \in RestoredPositions :
          positions_dict =
              [direction \in Directions |->
                  IF direction = position.direction
                  THEN [x \in {position.order_book_id} |-> position]
                  ELSE EmptyBucket]
    /\ backward_trade_set = {}
    /\ trading_dt = 1
    /\ calls = 0

\* get_position(order_book_id, direction).apply_trade(trade), called by a
\* client on a Position the ledger holds.
PositionTradeCall(direction, order_book_id, trade) ==
    /\ LET position == positions_dict[direction][order_book_id]
           after == PositionApplyTrade(position, trade)
       IN  /\ after # position => calls < MaxCalls
           /\ positions_dict' =
                  [positions_dict EXCEPT ![direction][order_book_id] = after]
           /\ calls' = IF after # position THEN calls + 1 ELSE calls
    /\ UNCHANGED <<backward_trade_set, trading_dt>>

\* get_position(order_book_id, direction).apply_settlement(trading_date),
\* called by a client at the end of the current trading date.
PositionSettlementCall(direction, order_book_id) ==
    /\ trading_dt <= MaxDate
    /\ calls < MaxCalls
    /\ positions_dict' =
          [positions_dict EXCEPT ![direction][order_book_id] =
              PositionApplySettlement(@, trading_dt)]
    /\ trading_dt' = trading_dt + 1
    /\ calls' = calls + 1
    /\ UNCHANGED backward_trade_set

RestoredNext ==
    \/ \E direction \in Directions :
          \E order_book_id \in DOMAIN positions_dict[direction] :
              \E trade \in PositionTrades(order_book_id) :
                  PositionTradeCall(direction, order_book_id, trade)
    \/ \E direction \in Directions :
          \E order_book_id \in DOMAIN positions_dict[direction] :
              PositionSettlementCall(direction, order_book_id)
    \/ ApplySettlement

RestoredSpec == RestoredInit /\ [][RestoredNext]_vars

\* ------------------------------------------------------------ the claims

\* A trade whose side and effect are among those the ledger routes.
WellFormed(trade) ==
    /\ trade.side \in {"BUY", "SELL"}
    /\ trade.position_effect \in {"OPEN", "CLOSE", "CLOSE_TODAY", None}

\* In every state, Ledger.apply_trade of a trade whose execution id is in
\* the dedupe set changes nothing and does not raise, and a call that
\* returns normally leaves the trade's id in the dedupe set.
ReplayIsSkipped ==
    \A trade \in Trades :
        LET result ==
                BookingModelApplyTrade(positions_dict, backward_trade_set, trade)
        IN  /\ trade.exec_id \in backward_trade_set =>
                /\ result.positions_dict = positions_dict
                /\ result.backward_trade_set = backward_trade_set
                /\ ~result.raised
            /\ ~result.raised => trade.exec_id \in result.backward_trade_set

\* C1: Ledger.apply_trade is idempotent by execution id.  Once a trade has
\* been applied (or its id was in the dedupe set the ledger was built
\* with), its id is in the dedupe set, no later trade or settlement takes
\* it out again, and applying the trade again leaves both buckets and the
\* dedupe set exactly as they were.
C1_ApplyTradeIdempotent ==
    /\ []ReplayIsSkipped
    /\ [][backward_trade_set \subseteq backward_trade_set']_vars

\* Trade 1 has been applied, a settlement has since cleared or evicted the
\* Position that recorded it, and the ledger still skips it.
C1_Witness ==
    /\ backward_trade_set = {1, 2}
    /\ trading_dt > 1
    /\ \A position \in Positions : position.trades = NoTrades
    /\ \E position \in Positions : Quantity(position) # 0

\* The bucket the claim names for a well-formed trade.
ClaimedDirection(trade) ==
    CASE trade.position_effect = "OPEN" /\ trade.side = "BUY" -> "LONG"
      [] trade.position_effect = "OPEN" /\ trade.side = "SELL" -> "SHORT"
      [] trade.position_effect \in {"CLOSE", "CLOSE_TODAY"} /\ trade.side = "BUY"
            -> "SHORT"
      [] trade.position_effect \in {"CLOSE", "CLOSE_TODAY"} /\ trade.side = "SELL"
            -> "LONG"
      [] OTHER -> "LONG"

\* C3: Ledger.apply_trade routes a not-yet-seen well-formed trade to the
\* Position of its instrument in the bucket chosen by (effect, side), where
\* it is recorded; no other Position changes or appears, and the execution
\* id is added to the dedupe set.
C3_RoutedToOnePosition ==
    \A trade \in Trades :
        (trade.exec_id \notin backward_trade_set /\ WellFormed(trade)) =>
            LET result ==
                    BookingModelApplyTrade(positions_dict, backward_trade_set, trade)
                target == ClaimedDirection(trade)
            IN  /\ trade.order_book_id \in DOMAIN result.positions_dict[target]
                /\ trade.exec_id \in
                       DOMAIN result.positions_dict[target][trade.order_book_id].trades
                /\ \A direction \in Directions :
                      \A order_book_id \in
                            DOMAIN result.positions_dict[direction]
                               \cup DOMAIN positions_dict[direction] :
                          (direction # target \/ order_book_id # trade.order_book_id)
                          => /\ order_book_id \in DOMAIN positions_dict[direction]
                             /\ order_book_id \in DOMAIN result.positions_dict[direction]
                             /\ result.positions_dict[direction][order_book_id]
                                   = positions_dict[direction][order_book_id]
                /\ result.backward_trade_set
                       = backward_trade_set \cup {trade.exec_id}

\* C4 as stated: no Position ever has old_quantity and today_quantity both
\* negative.
C4_NeverBothNegative ==
    \A position \in Positions :
        ~(position.old_quantity < 0 /\ position.today_quantity < 0)

\* C4, amended: old_quantity and today_quantity of a Position are both
\* negative only while its trades map records a CLOSE_TODAY trade, that is
\* only after a CLOSE_TODAY applied since the Position's last settlement.
C4_BothNegativeOnlyAfterCloseToday ==
    \A position \in Positions :
        (position.old_quantity < 0 /\ position.today_quantity < 0) =>
            \E exec_id \in DOMAIN position.trades :
                position.trades[exec_id].position_effect = "CLOSE_TODAY"

\* A Position whose negative today_quantity was rolled into old_quantity by
\* a settlement and that a CLOSE_TODAY then took below zero again.
C4_Witness ==
    \E position \in Positions :
        /\ position.old_quantity < 0
        /\ position.today_quantity < 0
        /\ position.logical_old_quantity < 0

\* C2: Position.apply_trade of a trade whose execution id is already in the
\* Position's trades map does not raise and leaves every field of the
\* Position (quantities, avg_price, prev_settlement_price, trades) as it
\* was, whatever the trade carries under that id.
C2_RecordedTradeIsNoOp ==
    \A position \in Positions :
        \A trade \in PositionTrades(position.order_book_id) :
            trade.exec_id \in DOMAIN position.trades =>
                /\ PositionApplyTrade(position, trade) = position
                /\ ~PositionApplyTradeRaises(position, trade)

\* A restored Position to which one trade has been applied directly: every
\* further call with that execution id is skipped.
C2_Witness ==
    /\ calls = 1
    /\ \E position \in Positions :
          /\ DOMAIN position.trades = {1}
          /\ position.trades[1].position_effect = "OPEN"
          /\ position.today_quantity = 10
          /\ position.old_quantity = 10

\* C5: an OPEN trade (explicit, or inferred from BUY) of quantity q > 0 at
\* price p, applied to a Position of quantity Q >= 0 that has not recorded
\* it, sets avg_price to (Q * avg_price + q * p) / (Q + q), adds q to
\* today_quantity and leaves old_quantity alone.
C5_OpenWeightedAverage ==
    \A position \in Positions :
        \A trade \in Trades :
            ( /\ trade.exec_id \notin DOMAIN position.trades
              /\ GetPositionEffect(trade.side, trade.position_effect) = "OPEN"
              /\ trade.last_quantity > 0
              /\ Quantity(position) >= 0 ) =>
                LET after == PositionApplyTrade(position, trade)
                    Q == position.old_quantity + position.today_quantity
                    q == trade.last_quantity
                IN  /\ after.avg_price[1] * (position.avg_price[2] * (Q + q))
                         = after.avg_price[2]
                             * (Q * position.avg_price[1]
                                  + q * trade.last_price * position.avg_price[2])
                    /\ after.avg_price[2] > 0
                    /\ after.today_quantity = position.today_quantity + q
                    /\ after.old_quantity = position.old_quantity

\* Opening 10 at 100 and then 10 at 200 on a flat Position: avg_price 150,
\* today_quantity 20.
C5_Witness ==
    \E position \in Positions :
        /\ position.avg_price = <<150, 1>>
        /\ position.today_quantity = 20
        /\ position.old_quantity = 0
        /\ DOMAIN position.trades = {1, 2}
        /\ position.trades[1].position_effect = "OPEN"
        /\ position.trades[1].last_price = 100
        /\ position.trades[2].position_effect = "OPEN"
        /\ position.trades[2].last_price = 200

\* C6: an OPEN trade of quantity q at price p, applied to a Position of
\* negative quantity Q that has not recorded it, sets avg_price to 0 when
\* q <= -Q and to p when q > -Q, and adds q to today_quantity.
C6_OpenOnNegativeQuantity ==
    \A position \in Positions :
        \A trade \in PositionTrades(position.order_book_id) :
            ( /\ trade.exec_id \notin DOMAIN position.trades
              /\ GetPositionEffect(trade.side, trade.position_effect) = "OPEN"
              /\ position.old_quantity + position.today_quantity < 0 ) =>
                LET after == PositionApplyTrade(position, trade)
                    Q == position.old_quantity + position.today_quantity
                    q == trade.last_quantity
                IN  /\ q <= -Q => after.avg_price = <<0, 1>>
                    /\ q > -Q => after.avg_price = <<trade.last_price, 1>>
                    /\ after.today_quantity = position.today_quantity + q
                    /\ after.old_quantity = position.old_quantity

\* Quantity -10 at avg_price 100, then an OPEN of 15 at 200: avg_price is
\* the trade's price.
C6_Witness ==
    \E position \in Positions :
        /\ position.old_quantity = -10
        /\ position.today_quantity = 15
        /\ position.avg_price = <<200, 1>>
        /\ DOMAIN position.trades = {1}
        /\ position.trades[1].position_effect = "OPEN"
        /\ position.trades[1].last_quantity = 15

Max(a, b) == IF a >= b THEN a ELSE b

Min(a, b) == IF a <= b THEN a ELSE b

\* C7: a CLOSE trade (explicit, or inferred from SELL) of quantity q applied
\* to a Position with old_quantity o and today_quantity t that has not
\* recorded it yields old_quantity max(o - q, 0) and today_quantity
\* t + min(o - q, 0): old_quantity is not negative afterwards, the total
\* quantity falls by exactly q, and avg_price is unchanged.
C7_CloseOldBeforeToday ==
    \A position \in Positions :
        \A trade \in PositionTrades(position.order_book_id) :
            ( /\ trade.exec_id \notin DOMAIN position.trades
              /\ GetPositionEffect(trade.side, trade.position_effect) = "CLOSE" ) =>
                LET after == PositionApplyTrade(position, trade)
                    o == position.old_quantity
                    t == position.today_quantity
                    q == trade.last_quantity
                IN  /\ after.old_quantity = Max(o - q, 0)
                    /\ after.today_quantity = t + Min(o - q, 0)
                    /\ after.old_quantity >= 0
                    /\ after.old_quantity + after.today_quantity = (o + t) - q
                    /\ after.avg_price = position.avg_price

\* old_quantity 5 and today_quantity 3, then a CLOSE of 6: old_quantity 0,
\* today_quantity 2.
C7_Witness ==
    \E position \in Positions :
        /\ position.logical_old_quantity = 5
        /\ position.old_quantity = 0
        /\ position.today_quantity = 2
        /\ DOMAIN position.trades = {1}
        /\ position.trades[1].position_effect = "CLOSE"
        /\ position.trades[1].last_quantity = 6

\* C8: with no split ratio in effect for the next trading date,
\* Position.apply_settlement sets old_quantity to old_quantity +
\* today_quantity, today_quantity to 0 and logical_old_quantity to the new
\* old_quantity, empties trades, keeps avg_price and the total quantity, and
\* stores the settlement price (futures) or the last close (others) as
\* prev_settlement_price.
C8_SettlementRollover ==
    \A position \in Positions :
        ~Truthy(GetSplitByExDate(position.order_book_id, trading_dt + 1)) =>
            LET after == PositionApplySettlement(position, trading_dt)
            IN  /\ after.old_quantity
                     = position.old_quantity + position.today_quantity
                /\ after.today_quantity = 0
                /\ after.logical_old_quantity = after.old_quantity
                /\ DOMAIN after.trades = {}
                /\ after.avg_price = position.avg_price
                /\ after.old_quantity + after.today_quantity
                     = position.old_quantity + position.today_quantity
                /\ after.prev_settlement_price =
                     IF InstrumentType(position.order_book_id) = "Future"
                     THEN GetSettlePrice(position.order_book_id, trading_dt)
                     ELSE HistoryBarsClose(position.order_book_id, trading_dt)
                /\ after.order_book_id = position.order_book_id
                /\ after.direction = position.direction

\* old_quantity 0, today_quantity 7, avg_price 50 of a stock without a
\* split, after a settlement called on the Position for date 1.
C8_Witness ==
    /\ calls = 1
    /\ trading_dt = 2
    /\ \E position \in Positions :
          /\ position.order_book_id = "DL"
          /\ position.old_quantity = 7
          /\ position.today_quantity = 0
          /\ position.logical_old_quantity = 7
          /\ position.avg_price = <<50, 1>>
          /\ position.trades = NoTrades
          /\ position.prev_settlement_price = 51

\* C9: when the provider returns a split ratio r for the next trading date,
\* Position.apply_settlement leaves old_quantity at r times the rolled-over
\* quantity and avg_price at the previous avg_price divided by r, so that
\* old_quantity * avg_price is what it is without the split; when no ratio
\* is returned neither is scaled.
C9_SplitAdjustment ==
    \A position \in Positions :
        LET split_ratio == GetSplitByExDate(position.order_book_id, trading_dt + 1)
            after == PositionApplySettlement(position, trading_dt)
            rolled == position.old_quantity + position.today_quantity
        IN  /\ split_ratio # NoValue /\ split_ratio # <<0>> =>
                /\ after.old_quantity = rolled * split_ratio[1]
                /\ after.avg_price[1] * split_ratio[1] * position.avg_price[2]
                     = position.avg_price[1] * after.avg_price[2]
                /\ after.avg_price[2] > 0
                /\ after.old_quantity * after.avg_price[1] * position.avg_price[2]
                     = rolled * position.avg_price[1] * after.avg_price[2]
            /\ split_ratio = NoValue =>
                /\ after.old_quantity = rolled
                /\ after.avg_price = position.avg_price

\* A 2:1 split at the settlement of old_quantity 10, avg_price 100:
\* old_quantity 20, avg_price 50.
C9_Witness ==
    /\ trading_dt = 2
    /\ \E position \in Positions :
          /\ position.order_book_id = "ST"
          /\ position.logical_old_quantity = 10
          /\ position.old_quantity = 20
          /\ position.today_quantity = 0
          /\ position.avg_price = <<50, 1>>
          /\ position.trades = NoTrades

\* C10: Ledger.apply_settlement for the current date keeps a Position if
\* and only if it was present, its quantity was not zero and its instrument
\* is not delisted as of that date (no Position appears); a Position it
\* evicts is left as it was, every Position it keeps is the result of one
\* Position.apply_settlement, and has a non-zero quantity, today_quantity 0
\* and an empty trades map.
C10_EvictionAtSettlement ==
    LET after == BookingModelApplySettlement(positions_dict, trading_dt)
    IN  \A direction \in Directions :
            /\ DOMAIN after[direction] \subseteq DOMAIN positions_dict[direction]
            /\ \A order_book_id \in DOMAIN positions_dict[direction] :
                  LET position == positions_dict[direction][order_book_id]
                  IN  /\ order_book_id \in DOMAIN after[direction]
                         <=> /\ position.old_quantity + position.today_quantity # 0
                             /\ ~IsDeListed(position, trading_dt)
                      /\ order_book_id \notin DOMAIN after[direction] =>
                            ScanBucket(positions_dict[direction],
                                       trading_dt)[order_book_id] = position
                      /\ order_book_id \in DOMAIN after[direction] =>
                            /\ after[direction][order_book_id]
                                 = PositionApplySettlement(position, trading_dt)
                            /\ after[direction][order_book_id].old_quantity
                                 + after[direction][order_book_id].today_quantity # 0
                            /\ after[direction][order_book_id].today_quantity = 0
                            /\ DOMAIN after[direction][order_book_id].trades = {}

\* After the settlements of dates 1 and 2 the ledger holds the stock
\* Position that was rolled over (and split) and no Position of the future,
\* which date 2 delisted.
C10_Witness ==
    /\ trading_dt = 3
    /\ backward_trade_set = {1, 2}
    /\ DOMAIN positions_dict["SHORT"] = {}
    /\ DOMAIN positions_dict["LONG"] = {"ST"}
    /\ positions_dict["LONG"]["ST"].old_quantity = 20
    /\ positions_dict["LONG"]["ST"].logical_old_quantity = 20
    /\ positions_dict["LONG"]["ST"].today_quantity = 0
    /\ positions_dict["LONG"]["ST"].trades = NoTrades

\* C11: position_pnl is 0 whenever logical_old_quantity is 0, whatever the
\* last price: so it is for every Position of the first session, for a
\* Position a trade creates, and it stays so under every further trade;
\* trading_pnl is 0 whenever the trades map is empty, so it is for every
\* Position a settlement keeps.
C11_PnlZeroCases ==
    /\ \A position \in Positions :
          \A last_price \in LastPrices :
              /\ position.logical_old_quantity = 0 =>
                    PositionPnl(position, last_price) = 0
              /\ position.trades = NoTrades =>
                    TradingPnl(position, last_price) = 0
              /\ trading_dt = 1 => PositionPnl(position, last_price) = 0
    /\ \A trade \in Trades :
          LET result ==
                  BookingModelApplyTrade(positions_dict, backward_trade_set, trade)
          IN  \A direction \in Directions :
                  \A order_book_id \in DOMAIN result.positions_dict[direction] :
                      \A last_price \in LastPrices :
                          (order_book_id \in DOMAIN positions_dict[direction]
                             => positions_dict[direction][order_book_id]
                                   .logical_old_quantity = 0)
                          => PositionPnl(result.positions_dict[direction][order_book_id],
                                         last_price) = 0
    /\ LET after == BookingModelApplySettlement(positions_dict, trading_dt)
       IN  \A direction \in Directions :
               \A order_book_id \in DOMAIN after[direction] :
                   \A last_price \in LastPrices :
                       TradingPnl(after[direction][order_book_id], last_price) = 0

\* In the second session: a Position created in it that has traded
\* (trading_pnl not 0, position_pnl 0) next to a Position the settlement
\* kept and nothing has traded since (position_pnl not 0, trading_pnl 0).
C11_Witness ==
    /\ trading_dt = 2
    /\ \E position \in Positions :
          /\ position.logical_old_quantity = 0
          /\ Quantity(position) # 0
          /\ TradingPnl(position, 120) # 0
          /\ PositionPnl(position, 120) = 0
    /\ \E position \in Positions :
          /\ position.trades = NoTrades
          /\ PositionPnl(position, 120) # 0
          /\ TradingPnl(position, 120) = 0

\* The sides and effects a malformed trade may be resent with.
Resent(trade) ==
    { [trade EXCEPT !.side = side, !.position_effect = position_effect] :
        side \in {"BUY", "SELL"},
        position_effect \in {"OPEN", "CLOSE", "CLOSE_TODAY", None} }

\* C12: Ledger.apply_trade of a not-yet-seen trade whose side is neither BUY
\* nor SELL, or whose explicit effect is none of OPEN, CLOSE, CLOSE_TODAY,
\* raises; every Position the ledger held is exactly as before the call (a
\* Position the call created is a new, empty one), the dedupe set is as
\* before and does not hold the trade's id, and the same trade resent
\* well-formed is not skipped: the Position it is routed to records it and
\* its id enters the dedupe set.
C12_MalformedTradeAborts ==
    \A trade \in Trades :
        (trade.exec_id \notin backward_trade_set /\ ~WellFormed(trade)) =>
            LET result ==
                    BookingModelApplyTrade(positions_dict, backward_trade_set, trade)
            IN  /\ result.raised
                /\ result.backward_trade_set = backward_trade_set
                /\ trade.exec_id \notin result.backward_trade_set
                /\ \A direction \in Directions :
                      /\ DOMAIN positions_dict[direction]
                            \subseteq DOMAIN result.positions_dict[direction]
                      /\ \A order_book_id \in DOMAIN result.positions_dict[direction] :
                            result.positions_dict[direction][order_book_id] =
                                IF order_book_id \in DOMAIN positions_dict[direction]
                                THEN positions_dict[direction][order_book_id]
                                ELSE BookingPosition(order_book_id, direction,
                                                     0, 0, FracOfInt(0), 0)
                /\ \A later \in Resent(trade) :
                      LET again == BookingModelApplyTrade(result.positions_dict,
                                       result.backward_trade_set, later)
                          target == again.positions_dict[ClaimedDirection(later)]
                      IN  /\ later.last_quantity > 0 => ~again.raised
                          /\ ~again.raised =>
                                /\ later.exec_id \in again.backward_trade_set
                                /\ later.order_book_id \in DOMAIN target
                                /\ later.exec_id \in
                                       DOMAIN target[later.order_book_id].trades
                                /\ target[later.order_book_id].trades[later.exec_id]
                                       = later

\* All the ledger holds is the empty Position an aborted call left behind:
\* nothing is recorded in it and the dedupe set is empty.
C12_Witness ==
    /\ backward_trade_set = {}
    /\ trading_dt = 2
    /\ DOMAIN positions_dict["SHORT"] = {}
    /\ DOMAIN positions_dict["LONG"] = {"ST"}
    /\ positions_dict["LONG"]["ST"]
          = BookingPosition("ST", "LONG", 0, 0, FracOfInt(0), 0)

\* No Ledger.apply_trade removes a Position from a bucket, whatever the
\* trade.
TradesRemoveNothing ==
    \A trade \in Trades :
        LET result ==
                BookingModelApplyTrade(positions_dict, backward_trade_set, trade)
        IN  \A direction \in Directions :
                DOMAIN positions_dict[direction]
                    \subseteq DOMAIN result.positions_dict[direction]

\* A step in which a Position leaves its bucket is a settlement, and the
\* Position had quantity 0 or a delisted instrument when it was taken.
RemovedOnlyAtSettlement ==
    \A direction \in Directions :
        \A order_book_id \in DOMAIN positions_dict[direction] :
            order_book_id \notin DOMAIN positions_dict'[direction] =>
                /\ trading_dt' = trading_dt + 1
                /\ backward_trade_set' = backward_trade_set
                /\ positions_dict' =
                       BookingModelApplySettlement(positions_dict, trading_dt)
                /\ \/ Quantity(positions_dict[direction][order_book_id]) = 0
                   \/ IsDeListed(positions_dict[direction][order_book_id],
                                 trading_dt)

\* C13: Positions are never destroyed mid-session.  No Ledger.apply_trade
\* removes a Position from a bucket; a Position leaves its bucket only in a
\* Ledger.apply_settlement step, and only if its quantity is 0 or its
\* instrument is delisted at that moment.
C13_NeverDestroyedMidSession ==
    /\ []TradesRemoveNothing
    /\ [][RemovedOnlyAtSettlement]_vars

\* A Position whose quantity two trades (an OPEN and a CLOSE_TODAY of the
\* same quantity) have brought back to 0: it is still in its bucket, with
\* both trades recorded.
C13_Witness ==
    \E position \in Positions :
        /\ Quantity(position) = 0
        /\ position.avg_price = <<100, 1>>
        /\ DOMAIN position.trades = {1, 2}
        /\ position.trades[1].position_effect = "OPEN"
        /\ position.trades[1].last_quantity = 10
        /\ position.trades[2].position_effect = "CLOSE_TODAY"
        /\ position.trades[2].last_quantity = 10

\* C14: the read accessors do not change the ledger.  In every state,
\* get_position(order_book_id, direction) leaves both buckets (key sets and
\* Positions) as they were, also when the bucket holds no Position for
\* order_book_id, and get_positions() returns exactly the Positions of both
\* buckets whose quantity is not 0.
C14_AccessorsChangeNothing ==
    /\ \A order_book_id \in Instruments :
          \A direction \in Directions :
              BookingModelGetPosition(positions_dict, order_book_id, direction)
                  = positions_dict
    /\ BookingModelGetPositions(positions_dict)
          = {position \in Positions : Quantity(position) # 0}

\* No apply_trade, called on a Position the ledger holds or through the
\* ledger, changes a logical_old_quantity or a prev_settlement_price.
TradesKeepSnapshot ==
    /\ \A position \in Positions :
          \A trade \in PositionTrades(position.order_book_id) :
              LET after == PositionApplyTrade(position, trade)
              IN  /\ after.logical_old_quantity = position.logical_old_quantity
                  /\ after.prev_settlement_price = position.prev_settlement_price
    /\ \A trade \in Trades :
          LET result ==
                  BookingModelApplyTrade(positions_dict, backward_trade_set, trade)
          IN  \A direction \in Directions :
                  \A order_book_id \in DOMAIN positions_dict[direction] :
                      /\ order_book_id \in DOMAIN result.positions_dict[direction]
                      /\ result.positions_dict[direction][order_book_id]
                            .logical_old_quantity
                           = positions_dict[direction][order_book_id]
                                .logical_old_quantity
                      /\ result.positions_dict[direction][order_book_id]
                            .prev_settlement_price
                           = positions_dict[direction][order_book_id]
                                .prev_settlement_price

\* A step that changes the logical_old_quantity or the
\* prev_settlement_price of a Position that stays in its bucket is a
\* settlement of that Position.
SnapshotMovesOnlyAtSettlement ==
    \A direction \in Directions :
        \A order_book_id \in DOMAIN positions_dict[direction] :
            ( /\ order_book_id \in DOMAIN positions_dict'[direction]
              /\ \/ positions_dict'[direction][order_book_id].logical_old_quantity
                      # positions_dict[direction][order_book_id].logical_old_quantity
                 \/ positions_dict'[direction][order_book_id].prev_settlement_price
                      # positions_dict[direction][order_book_id].prev_settlement_price )
            => /\ trading_dt' = trading_dt + 1
               /\ positions_dict'[direction][order_book_id] =
                      PositionApplySettlement(
                          positions_dict[direction][order_book_id], trading_dt)

\* C15: logical_old_quantity is frozen between settlements.  No apply_trade
\* (OPEN, CLOSE or CLOSE_TODAY, on the Position or through the ledger)
\* changes a Position's logical_old_quantity or prev_settlement_price, also
\* when a CLOSE takes old_quantity to 0; they change only in
\* Position.apply_settlement.
C15_SnapshotFrozenBetweenSettlements ==
    /\ []TradesKeepSnapshot
    /\ [][SnapshotMovesOnlyAtSettlement]_vars

\* A restored Position (old_quantity 10, prev_settlement_price 90) after a
\* CLOSE of 15: old_quantity is 0, logical_old_quantity still 10.
C15_Witness ==
    \E position \in Positions :
        /\ position.logical_old_quantity = 10
        /\ position.prev_settlement_price = 90
        /\ position.old_quantity = 0
        /\ position.today_quantity = -5
        /\ DOMAIN position.trades = {1}
        /\ position.trades[1].last_quantity = 15

\* C16: logical_old_quantity is the snapshot of old_quantity taken at the
\* most recent settlement.  Immediately after Position.apply_settlement,
\* with or without a split ratio in effect, logical_old_quantity equals
\* old_quantity.
C16_SnapshotIsOldQuantity ==
    \A position \in Positions :
        LET after == PositionApplySettlement(position, trading_dt)
        IN  after.logical_old_quantity = after.old_quantity

\* C17: a CLOSE_TODAY trade of quantity q >= 0, applied to a Position that
\* has not recorded it, leaves today_quantity at the previous
\* today_quantity - q, negative when q is the larger, and old_quantity,
\* logical_old_quantity, avg_price and prev_settlement_price as they were.
C17_CloseTodayNeverClamps ==
    \A position \in Positions :
        \A trade \in PositionTrades(position.order_book_id) :
            ( /\ trade.exec_id \notin DOMAIN position.trades
              /\ trade.position_effect = "CLOSE_TODAY" ) =>
                LET after == PositionApplyTrade(position, trade)
                IN  /\ after.today_quantity
                         = position.today_quantity - trade.last_quantity
                    /\ trade.last_quantity > position.today_quantity
                         => after.today_quantity < 0
                    /\ after.old_quantity = position.old_quantity
                    /\ after.logical_old_quantity = position.logical_old_quantity
                    /\ after.avg_price = position.avg_price
                    /\ after.prev_settlement_price = position.prev_settlement_price
                    /\ after.trades = RecordTrade(position.trades, trade)

\* old_quantity 5 and today_quantity 3, then a CLOSE_TODAY of 6:
\* today_quantity -3, old_quantity still 5.
C17_Witness ==
    \E position \in Positions :
        /\ position.old_quantity = 5
        /\ position.logical_old_quantity = 5
        /\ position.today_quantity = -3
        /\ position.avg_price = <<100, 1>>
        /\ DOMAIN position.trades = {1}
        /\ position.trades[1].position_effect = "CLOSE_TODAY"
        /\ position.trades[1].last_quantity = 6

\* (i) every execution id a Position records is in the dedupe set, and
\* (ii) no execution id is recorded by two Positions.
RecordedIdsAreDeduped ==
    /\ \A position \in Positions :
          DOMAIN position.trades \subseteq backward_trade_set
    /\ \A d1 \in Directions : \A d2 \in Directions :
          \A id1 \in DOMAIN positions_dict[d1] :
              \A id2 \in DOMAIN positions_dict[d2] :
                  (d1 # d2 \/ id1 # id2) =>
                      DOMAIN positions_dict[d1][id1].trades
                          \cap DOMAIN positions_dict[d2][id2].trades = {}

\* C18: dedupe-set consistency.  In every state reachable from an empty
\* ledger, every execution id in a Position's trades map is in
\* backward_trade_set and is in the trades map of no other Position, and no
\* step, settlement and eviction included, takes an element out of
\* backward_trade_set.
C18_DedupeSetConsistent ==
    /\ []RecordedIdsAreDeduped
    /\ [][backward_trade_set \subseteq backward_trade_set']_vars

\* The second session: one Position the settlement kept (its trade of the
\* first session is no longer recorded, its id still deduped) and another
\* Position that records the second trade.
C18_Witness ==
    /\ trading_dt = 2
    /\ backward_trade_set = {1, 2}
    /\ \E position \in Positions :
          /\ position.trades = NoTrades
          /\ position.logical_old_quantity = 10
    /\ \E position \in Positions :
          /\ DOMAIN position.trades = {2}
          /\ position.logical_old_quantity = 0
          /\ position.today_quantity = 10

\* The trades of one session on one instrument that carry the execution id
\* exec_id: an OPEN, a CLOSE or a CLOSE_TODAY of quantity 0, 6 or 15.
SessionTrades(exec_id, order_book_id) ==
    { Trade(exec_id, order_book_id, kind[1], kind[2], lot) :
        kind \in { <<"BUY", "OPEN">>, <<"SELL", "CLOSE">>, <<"SELL", "CLOSE_TODAY">> },
        lot \in { <<0, 100>>, <<6, 100>>, <<15, 200>> } }

\* What the claim adds to the total for a trade: its quantity for an OPEN,
\* minus its quantity for a CLOSE or a CLOSE_TODAY.
SignedQuantity(trade) ==
    IF GetPositionEffect(trade.side, trade.position_effect) = "OPEN"
    THEN trade.last_quantity
    ELSE 0 - trade.last_quantity

\* C19: the total quantity does not depend on the order of the trades of a
\* session.  For every Position and every two trades with execution ids the
\* Position has not recorded, applying them in either order, with no
\* settlement in between, leaves the total at the quantity before plus the
\* OPEN quantities minus the CLOSE and CLOSE_TODAY quantities.
C19_TotalQuantityOrderIndependent ==
    \A position \in Positions :
        \A first \in SessionTrades(3, position.order_book_id) :
            \A second \in SessionTrades(4, position.order_book_id) :
                LET one == PositionApplyTrade(
                               PositionApplyTrade(position, first), second)
                    other == PositionApplyTrade(
                                 PositionApplyTrade(position, second), first)
                    total == Quantity(position) + SignedQuantity(first)
                                + SignedQuantity(second)
                IN  /\ Quantity(one) = total
                    /\ Quantity(other) = total

\* A Position that has recorded one trade of the session and on which two
\* further trades of positive quantity give the same total in either order
\* and a different avg_price.
C19_Witness ==
    /\ calls = 1
    /\ \E position \in Positions :
          /\ DOMAIN position.trades = {1}
          /\ position.trades[1].last_quantity > 0
          /\ \E first \in SessionTrades(3, position.order_book_id) :
                \E second \in SessionTrades(4, position.order_book_id) :
                    LET one == PositionApplyTrade(
                                   PositionApplyTrade(position, first), second)
                        other == PositionApplyTrade(
                                     PositionApplyTrade(position, second), first)
                    IN  /\ first.last_quantity > 0
                        /\ second.last_quantity > 0
                        /\ DOMAIN one.trades = {1, 3, 4}
                        /\ DOMAIN other.trades = {1, 3, 4}
                        /\ Quantity(one) = Quantity(other)
                        /\ one.avg_price # other.avg_price

\* C20: no carry-over across eviction.  A Position that is flat or of a
\* delisted instrument (whatever quantity it holds) is not in its bucket
\* after Ledger.apply_settlement; a not-yet-seen trade routed to its
\* instrument and direction then acts on a new Position (quantities 0,
\* avg_price 0, prev_settlement_price 0, no trades), and a trade whose
\* execution id is in the dedupe set is still skipped.
C20_NoCarryOverAcrossEviction ==
    LET after == BookingModelApplySettlement(positions_dict, trading_dt)
    IN  \A direction \in Directions :
            \A order_book_id \in DOMAIN positions_dict[direction] :
                ( \/ Quantity(positions_dict[direction][order_book_id]) = 0
                  \/ IsDeListed(positions_dict[direction][order_book_id],
                                trading_dt) ) =>
                    /\ order_book_id \notin DOMAIN after[direction]
                    /\ \A trade \in Trades :
                          LET result == BookingModelApplyTrade(
                                            after, backward_trade_set, trade)
                          IN  /\ ( /\ trade.exec_id \notin backward_trade_set
                                   /\ trade.order_book_id = order_book_id
                                   /\ TargetDirection(trade) = direction ) =>
                                     result.positions_dict[direction][order_book_id]
                                       = PositionApplyTrade(
                                             BookingPosition(order_book_id, direction,
                                                 0, 0, FracOfInt(0), 0),
                                             trade)
                              /\ trade.exec_id \in backward_trade_set =>
                                     /\ result.positions_dict = after
                                     /\ result.backward_trade_set
                                           = backward_trade_set

\* The third session: the future was delisted at the second settlement, so
\* its Position is one that trade 2 opened afterwards; it holds that trade
\* alone, and trade 1, applied before, is still deduped.
C20_Witness ==
    /\ trading_dt = 3
    /\ backward_trade_set = {1, 2}
    /\ "IF" \in DOMAIN positions_dict["LONG"]
    /\ positions_dict["LONG"]["IF"].old_quantity = 0
    /\ positions_dict["LONG"]["IF"].logical_old_quantity = 0
    /\ positions_dict["LONG"]["IF"].prev_settlement_price = 0
    /\ positions_dict["LONG"]["IF"].today_quantity = 10
    /\ positions_dict["LONG"]["IF"].avg_price = <<200, 1>>
    /\ DOMAIN positions_dict["LONG"]["IF"].trades = {2}

====
